---- MODULE Spec2Model ----
(***************************************************************************)
(* Authentication and session lifecycle of simpletask-backend-fastapi:     *)
(* JWT issuance and verification (app/core/security.py), the Redis backed  *)
(* blacklist and rate limiter (app/core/redis.py), the lockout fields of   *)
(* the User model (app/models/user.py) and the auth endpoints              *)
(* (app/api/v1/auth.py, app/services/auth.py).                             *)
(*                                                                         *)
(* Time is counted in ticks, TicksPerSec ticks to the second, because the  *)
(* code mixes whole-second quantities (the JWT exp claim, Redis EX) with   *)
(* sub-second clocks (datetime.now, Redis' millisecond expiry).            *)
(***************************************************************************)
EXTENDS Integers, Sequences, FiniteSets, TLC

\* ---------------------------------------------------------------- bounds
TicksPerSec == 2
MaxUsers == 1
MaxResetTokens == 1
MaxTime == 3
MaxJti == 2
MaxFails == 7
\* the clock's range and the failed logins when the account itself is managed
AccountMaxTime == 2
AccountMaxFails == 1
\* concurrent refresh requests, and the clock's range while they run
MaxConcurrent == 2
MaxTasks == 2
MaxPosition == 2
ReorderMaxTasks == 3
TagMaxTasks == 2
BoardUsers == 2
RegMaxUsers == 2
RaceMaxTime == 1
RaceMaxJti == 4
RateRaceMaxTime == 2
FailMaxConcurrent == 3
\* lifetimes in seconds, scaled down from the configured values
AccessTTL == 1
RefreshTTL == 2
ResetTTL == 1
LockoutSec == 1
WindowSec == 1

\* ------------------------------------------------------ program constants
MaxAttempts == 5
LoginRateLimit == 5

TOKEN_TYPE_ACCESS == "access"
TOKEN_TYPE_REFRESH == "refresh"
TOKEN_TYPE_PASSWORD_RESET == "password_reset"

Emails == {"a@x.com"}
UnknownEmail == "nobody@x.com"
\* the addresses as clients spell them on registration
RawEmails == Emails \cup {"A@X.com", " a@x.com ", "b@x.com"}
Passwords == {"Passw0rd!", "wrong"}
ClientIPs == {"127.0.0.1"}
\* settings.ENVIRONMENT
Environments == {"development", "production"}
DefaultEnvironment == "development"
None == -1
\* TaskStatus
TaskStatuses == {"todo", "in_progress", "done", "archived"}
TaskStatusDone == "done"
\* the columns that requests of the explored scope name
Columns == {"todo", "in_progress", "done"}
\* a field that a request leaves unset
Unset == "unset"
DEFAULT_POSITION == 0
\* tag_ids left unset
NoTagIds == {None}
NoJti == 0
NoToken == [jti |-> NoJti, sub |-> 0, type |-> "none", exp |-> 0, sig |-> FALSE]

VARIABLES
    now,        \* wall clock, in ticks
    users,      \* users table: id -> row
    nextUid,    \* number of rows ever inserted (ids are fresh)
    redis,      \* shared expiring key-value store: key -> [val, exp]
    issued,     \* tokens handed out so far (what a client can present)
    nextJti,    \* number of jtis drawn so far (uuid4 is fresh)
    resp,       \* the response of the last request
    revoked,    \* history: jtis whose logout / rotation request completed
    streak,     \* history: consecutive failed logins per account
    lockedAt,   \* history: when the streak reached MaxAttempts
    win,        \* history: [start, calls] of the rate-limit window per client
    reqs,       \* refresh requests in flight: [pc, tok, status] per worker
    cap,        \* the scope explored and the deployment: [time, jti, fails, env], fixed by Init
    tasks,      \* tasks table: id -> row
    nextTask,   \* number of task rows ever inserted
    tags,       \* tags table: id -> row
    task_tags   \* task_tags table: set of <<task_id, tag_id>>

\* the tables of the task board
board == <<tasks, nextTask, tags, task_tags>>
\* everything a task or tag request leaves alone
account == <<now, users, nextUid, redis, issued, nextJti, revoked, streak, lockedAt, win,
             reqs, cap>>

vars == <<now, users, nextUid, redis, issued, nextJti, resp, revoked, streak, lockedAt, win,
          reqs, cap, tasks, nextTask, tags, task_tags>>

\* ------------------------------------------------------------ time helpers
Ticks(sec) == sec * TicksPerSec
\* PyJWT encodes a datetime claim as whole seconds (timegm of utctimetuple)
WholeSec(t) == t \div TicksPerSec

\* ------------------------------------------------------- credential hasher
\* an Argon2 hash string carries the parameters it was made with
Argon2Params == "argon2id"
get_password_hash(password) == <<Argon2Params, password>>
verify_password(plain, hash) == hash[2] = plain
needs_rehash(hash) == hash[1] # Argon2Params

\* -------------------------------------------------------------- user model
is_locked(u, t) == IF u.locked_until = None THEN FALSE ELSE t < u.locked_until
\* can_login without its lock check
can_login_ignores_lock(u, t) == u.is_active
can_login(u, t) == u.is_active /\ ~is_locked(u, t)

\* record_login_success that forgets to clear locked_until
record_login_success_keeps_lock(u) ==
    [u EXCEPT !.failed_login_attempts = 0]
record_login_success(u) ==
    [u EXCEPT !.failed_login_attempts = 0, !.locked_until = None]

\* @validates("failed_login_attempts"): max(0, attempts) on every assignment
validate_failed_attempts(attempts) == IF attempts < 0 THEN 0 ELSE attempts

\* record_login_failure with a lockout of no duration
record_login_failure_no_duration(u, t) ==
    LET n == validate_failed_attempts(u.failed_login_attempts + 1)
    IN  [u EXCEPT !.failed_login_attempts = n,
                  !.locked_until = IF n >= MaxAttempts THEN t ELSE @]
\* record_login_failure that locks one attempt late (> for >=)
record_login_failure_late(u, t) ==
    LET n == validate_failed_attempts(u.failed_login_attempts + 1)
    IN  [u EXCEPT !.failed_login_attempts = n,
                  !.locked_until = IF n > MaxAttempts THEN t + Ticks(LockoutSec) ELSE @]
record_login_failure(u, t) ==
    LET n == validate_failed_attempts(u.failed_login_attempts + 1)
    IN  [u EXCEPT !.failed_login_attempts = n,
                  !.locked_until = IF n >= MaxAttempts THEN t + Ticks(LockoutSec) ELSE @]

unlock_user(u) ==
    [u EXCEPT !.failed_login_attempts = 0, !.locked_until = None]

\* email.lower().strip() on the spellings of RawEmails
lower_strip(email) ==
    CASE email = "A@X.com" -> "a@x.com"
      [] email = " a@x.com " -> "a@x.com"
      [] OTHER -> email

get_by_email(us, email) ==
    LET hit == {i \in DOMAIN us : us[i].email = lower_strip(email)}
    IN  IF hit = {} THEN 0 ELSE CHOOSE i \in hit : TRUE

\* is_email_taken comparing the address as it was typed
is_email_taken_raw(us, email) ==
    \E i \in DOMAIN us : us[i].email = email
is_email_taken(us, email) ==
    \E i \in DOMAIN us : us[i].email = lower_strip(email)

\* INSERT of the new row with id uid; users.email carries a unique index, so
\* the commit raises when the address is already stored
create_user(us, uid, email, password_hash) ==
    IF \E i \in DOMAIN us : us[i].email = lower_strip(email)
    THEN [raised |-> TRUE, users |-> us]
    ELSE [raised |-> FALSE,
          users |-> [i \in DOMAIN us \cup {uid} |->
                        IF i = uid
                        THEN [email |-> lower_strip(email),
                              password_hash |-> password_hash,
                              is_active |-> TRUE,
                              failed_login_attempts |-> 0,
                              locked_until |-> None]
                        ELSE us[i]]]

\* ------------------------------------------------------------- Redis cache
BlKey(jti) == <<"blacklist", jti>>
RlKey(identifier, key) == <<"rate_limit", identifier, key>>

Live(r, k, t) == k \in DOMAIN r /\ t < r[k].exp
\* RedisCache.get: the value, None when absent or when the store raised
cache_get(r, k, t, ok) == IF ok /\ Live(r, k, t) THEN r[k].val ELSE None
\* RedisCache.exists that reports every key as present when the store raised
cache_exists_fails_closed(r, k, t, ok) == ~ok \/ Live(r, k, t)
\* RedisCache.exists: False when absent or when the store raised
cache_exists(r, k, t, ok) == ok /\ Live(r, k, t)
\* RedisCache.set with ex=expire seconds; unchanged when the store raised
cache_set(r, k, v, expire, t, ok) ==
    IF ok THEN [x \in DOMAIN r \cup {k} |->
                   IF x = k THEN [val |-> v, exp |-> t + Ticks(expire)] ELSE r[x]]
    ELSE r
\* the expiry of a key that was written without one (redis TTL -1)
NoExpiry == 1000
\* redis INCR keeps the expiry of a live key, and creates an absent key with
\* the value 1 and no expiry
client_incr(r, k, t) ==
    IF Live(r, k, t) THEN [r EXCEPT ![k].val = @ + 1]
    ELSE [x \in DOMAIN r \cup {k} |->
             IF x = k THEN [val |-> 1, exp |-> NoExpiry] ELSE r[x]]
\* keys whose expiry has passed are gone
Purge(r, t) == [k \in {x \in DOMAIN r : t < r[x].exp} |-> r[k]]

\* --------------------------------------------------------------- JWT codec
create_access_token(sub, jti, t) ==
    [jti |-> jti, sub |-> sub, type |-> TOKEN_TYPE_ACCESS,
     exp |-> WholeSec(t) + AccessTTL, sig |-> TRUE]
create_refresh_token(sub, jti, t) ==
    [jti |-> jti, sub |-> sub, type |-> TOKEN_TYPE_REFRESH,
     exp |-> WholeSec(t) + RefreshTTL, sig |-> TRUE]
generate_password_reset_token(sub, t) ==
    [jti |-> NoJti, sub |-> sub, type |-> TOKEN_TYPE_PASSWORD_RESET,
     exp |-> WholeSec(t) + ResetTTL, sig |-> TRUE]

\* jwt.decode called with a leeway of one second
Expired_with_leeway(tok, t) == Ticks(tok.exp) + TicksPerSec <= t
\* jwt.decode raises ExpiredSignatureError when exp <= now
Expired(tok, t) == Ticks(tok.exp) <= t

\* verify_token decoding with verify_exp switched off
verify_token_no_expiry(tok, r, t, ok) ==
    IF ~tok.sig THEN "invalid"
    ELSE IF tok.jti = NoJti THEN "bad_format"
    ELSE IF cache_exists(r, BlKey(tok.jti), t, ok) THEN "revoked"
    ELSE "ok"
\* SecurityManager.verify_token: "ok" or the reason of the 401
verify_token(tok, r, t, ok) ==
    IF ~tok.sig THEN "invalid"
    ELSE IF Expired(tok, t) THEN "expired"
    ELSE IF tok.jti = NoJti THEN "bad_format"
    ELSE IF cache_exists(r, BlKey(tok.jti), t, ok) THEN "revoked"
    ELSE "ok"

\* SecurityManager.blacklist_token: ttl = int(exp - now), stored when ttl > 0
BlacklistTtl(tok, t) ==
    LET rem == Ticks(tok.exp) - t
    IN  IF rem > 0 THEN rem \div TicksPerSec ELSE 0
blacklist_token(tok, r, t, ok) ==
    IF ~tok.sig THEN r
    ELSE IF tok.jti # NoJti /\ BlacklistTtl(tok, t) > 0
         THEN cache_set(r, BlKey(tok.jti), 1, BlacklistTtl(tok, t), t, ok)
         ELSE r

verify_password_reset_token(tok, t) ==
    IF ~tok.sig \/ Expired(tok, t) THEN 0
    ELSE IF tok.type # TOKEN_TYPE_PASSWORD_RESET THEN 0
    ELSE tok.sub

\* ------------------------------------------------------------ rate limiter
\* is_allowed whose except clause misses RedisError: a failing INCR
\* reaches the caller
is_allowed_incr_unguarded(r, key, limit, window, identifier, t, okGet, okSet, okIncr) ==
    LET k == RlKey(identifier, key)
        current == cache_get(r, k, t, okGet)
    IN  IF current = None
        THEN [allowed |-> TRUE, raised |-> FALSE, redis |-> cache_set(r, k, 1, window, t, okSet)]
        ELSE IF current >= limit
        THEN [allowed |-> FALSE, raised |-> FALSE, redis |-> r]
        ELSE IF okIncr
        THEN [allowed |-> TRUE, raised |-> FALSE, redis |-> client_incr(r, k, t)]
        ELSE [allowed |-> FALSE, raised |-> TRUE, redis |-> r]
\* is_allowed comparing with > where the code has >=
is_allowed_off_by_one(r, key, limit, window, identifier, t, okGet, okSet, okIncr) ==
    LET k == RlKey(identifier, key)
        current == cache_get(r, k, t, okGet)
    IN  IF current = None
        THEN [allowed |-> TRUE, raised |-> FALSE, redis |-> cache_set(r, k, 1, window, t, okSet)]
        ELSE IF current > limit
        THEN [allowed |-> FALSE, raised |-> FALSE, redis |-> r]
        ELSE IF okIncr
        THEN [allowed |-> TRUE, raised |-> FALSE, redis |-> client_incr(r, k, t)]
        ELSE [allowed |-> TRUE, raised |-> FALSE, redis |-> r]
\* RedisRateLimiter.is_allowed; okGet/okSet/okIncr: the store call succeeded
is_allowed(r, key, limit, window, identifier, t, okGet, okSet, okIncr) ==
    LET k == RlKey(identifier, key)
        current == cache_get(r, k, t, okGet)
    IN  IF current = None
        THEN [allowed |-> TRUE, raised |-> FALSE, redis |-> cache_set(r, k, 1, window, t, okSet)]
        ELSE IF current >= limit
        THEN [allowed |-> FALSE, raised |-> FALSE, redis |-> r]
        ELSE IF okIncr
        THEN [allowed |-> TRUE, raised |-> FALSE, redis |-> client_incr(r, k, t)]
        ELSE [allowed |-> TRUE, raised |-> FALSE, redis |-> r]

\* ---------------------------------------------------- AuthService.login
\* authenticate_user without its "user is None" guard: the attribute
\* access on None raises for an unknown e-mail
authenticate_user_no_none_guard(us, email, password, t) ==
    LET uid == get_by_email(us, email)
    IN  IF uid = 0
        THEN [user |-> 0, users |-> us, raised |-> TRUE]
        ELSE IF ~can_login(us[uid], t)
        THEN [user |-> 0, users |-> us, raised |-> FALSE]
        ELSE IF ~verify_password(password, us[uid].password_hash)
        THEN [user |-> 0, raised |-> FALSE,
              users |-> [us EXCEPT ![uid] = record_login_failure(@, t)]]
        ELSE [user |-> uid, raised |-> FALSE,
              users |-> [us EXCEPT ![uid] = record_login_success(@)]]
\* AuthService.authenticate_user: user = 0 is the None it returns
authenticate_user(us, email, password, t) ==
    LET uid == get_by_email(us, email)
    IN  IF uid = 0
        THEN [user |-> 0, users |-> us, raised |-> FALSE]
        ELSE IF ~can_login(us[uid], t)
        THEN [user |-> 0, users |-> us, raised |-> FALSE]
        ELSE IF ~verify_password(password, us[uid].password_hash)
        THEN [user |-> 0, raised |-> FALSE,
              users |-> [us EXCEPT ![uid] = record_login_failure(@, t)]]
        ELSE [user |-> uid, raised |-> FALSE,
              users |-> [us EXCEPT ![uid] = record_login_success(
                            IF needs_rehash(@.password_hash)
                            THEN [@ EXCEPT !.password_hash = get_password_hash(password)]
                            ELSE @)]]

\* get_current_user without its token type check
get_current_user_any_type(tok, us, r, t, ok) ==
    LET v == verify_token(tok, r, t, ok)
    IN  IF v # "ok" THEN [status |-> 401, detail |-> v, uid |-> 0]
        ELSE IF tok.sub \notin DOMAIN us
        THEN [status |-> 401, detail |-> "no_user", uid |-> 0]
        ELSE IF ~can_login(us[tok.sub], t)
        THEN [status |-> 403, detail |-> "disabled", uid |-> 0]
        ELSE [status |-> 200, detail |-> "", uid |-> tok.sub]
\* get_current_user (the dependency of every authenticated endpoint)
get_current_user(tok, us, r, t, ok) ==
    LET v == verify_token(tok, r, t, ok)
    IN  IF v # "ok" THEN [status |-> 401, detail |-> v, uid |-> 0]
        ELSE IF tok.type # TOKEN_TYPE_ACCESS
        THEN [status |-> 401, detail |-> "bad_type", uid |-> 0]
        ELSE IF tok.sub \notin DOMAIN us
        THEN [status |-> 401, detail |-> "no_user", uid |-> 0]
        ELSE IF ~can_login(us[tok.sub], t)
        THEN [status |-> 403, detail |-> "disabled", uid |-> 0]
        ELSE [status |-> 200, detail |-> "", uid |-> tok.sub]

\* --------------------------------------------------------------- responses
\* what held of a presented token when the request was checked
NoFacts == [type |-> "none", sig |-> FALSE, expired |-> FALSE, listed |-> FALSE,
            replay |-> FALSE, lookup_ok |-> TRUE]
TokFacts(tok, okExists) ==
    [type |-> tok.type, sig |-> tok.sig, expired |-> tok.exp * TicksPerSec <= now,
     listed |-> <<"blacklist", tok.jti>> \in DOMAIN redis,
     replay |-> tok.jti \in revoked, lookup_ok |-> okExists]

\* whether the account may log in right now, read off the users table
MayLogin(uid) ==
    /\ uid \in DOMAIN users
    /\ users[uid].is_active
    /\ users[uid].locked_until = None \/ now >= users[uid].locked_until
PwMatches(uid, password) == uid \in DOMAIN users /\ users[uid].password_hash[2] = password

\* a response: status and detail are what the caller sees; access and
\* refresh the tokens it is given; uid the user it was served for
Resp(op, status, detail) ==
    [op |-> op, status |-> status, detail |-> detail,
     access |-> NoToken, refresh |-> NoToken, uid |-> 0,
     cause |-> "", pw_ok |-> FALSE, could |-> FALSE, barred |-> FALSE, fails |-> 0,
     ip |-> "", store_err |-> FALSE, facts |-> NoFacts,
     email |-> "", password |-> "", new_password |-> ""]
NoResp == Resp("none", 0, "")

\* a served request: could = whether the user might log in when it arrived
Served(op, status, detail, uid, facts) ==
    [Resp(op, status, detail) EXCEPT !.uid = uid, !.facts = facts, !.could = MayLogin(uid)]

\* the 401 / 403 raised by verify_token and get_current_user is the same
\* response whichever endpoint the request was for
Denied(status, detail) ==
    resp' = [Resp("denied", status, detail) EXCEPT
                !.cause = IF detail = "disabled" THEN "cannot_login" ELSE ""]
\* the refresh endpoint answers "invalid user" for a missing user and for
\* one who cannot log in alike
DeniedUser(cause) ==
    resp' = [Resp("denied", 401, "bad_user") EXCEPT !.cause = cause]

\* what a client can put into a request: a token it was given, or a token
\* it made up, whose signature does not verify
Forged == [jti |-> 1, sub |-> 1, type |-> TOKEN_TYPE_ACCESS, exp |-> cap.time, sig |-> FALSE]
Presentable == issued \cup {Forged}

\* a token pair goes out with two fresh jtis; the client keeps it while it
\* holds fewer than cap.jti tokens and throws it away otherwise
Hand(access, refresh) ==
    IF nextJti + 2 <= cap.jti
    THEN /\ nextJti' = nextJti + 2
         /\ issued' = issued \cup {access, refresh}
    ELSE UNCHANGED <<nextJti, issued>>

Min(a, b) == IF a < b THEN a ELSE b

\* history of consecutive failed logins of account uid
StreakFail(uid) ==
    /\ streak' = [streak EXCEPT ![uid] = Min(@ + 1, MaxAttempts)]
    /\ lockedAt' = [lockedAt EXCEPT ![uid] =
                        IF streak[uid] + 1 = MaxAttempts THEN now ELSE @]
StreakReset(uid) ==
    /\ streak' = [streak EXCEPT ![uid] = 0]
    /\ lockedAt' = [lockedAt EXCEPT ![uid] = None]

\* the streak reached MaxAttempts and the lockout has not yet run out
Barred(uid) ==
    /\ uid # 0
    /\ streak[uid] >= MaxAttempts
    /\ lockedAt[uid] # None
    /\ now < lockedAt[uid] + LockoutSec * TicksPerSec

\* history of the calls a client made in its current rate-limit window
NoWin == [start |-> None, calls |-> 0]
WinOpen(w, t) == w.start # None /\ t < w.start + WindowSec * TicksPerSec
WinCall(ip) ==
    win' = [win EXCEPT ![ip] =
               IF WinOpen(@, now)
               THEN [@ EXCEPT !.calls = Min(@ + 1, LoginRateLimit + 1)]
               ELSE [start |-> now, calls |-> 1]]

\* a worker that is not handling a refresh request
Idle == [pc |-> "idle", tok |-> NoToken, status |-> 0]

\* ------------------------------------------------------------------ Init
InitState ==
    /\ now = 0
    /\ users = <<>>
    /\ nextUid = 0
    /\ redis = <<>>
    /\ issued = {}
    /\ nextJti = 0
    /\ resp = NoResp
    /\ revoked = {}
    /\ streak = [i \in 1..MaxUsers |-> 0]
    /\ lockedAt = [i \in 1..MaxUsers |-> None]
    /\ win = [ip \in ClientIPs |-> NoWin]
    /\ tasks = <<>>
    /\ nextTask = 0
    /\ tags = <<>>
    /\ task_tags = {}

Init ==
    /\ InitState
    /\ reqs = [p \in 1..MaxConcurrent |-> Idle]
    /\ cap = [time |-> MaxTime, jti |-> MaxJti, fails |-> MaxFails, env |-> DefaultEnvironment,
              users |-> MaxUsers, tasks |-> 0, pos |-> 0]

\* ---------------------------------------------------------------- actions
\* the clock advances; Redis drops the keys whose expiry has been reached
Tick ==
    /\ now < cap.time
    /\ now' = now + 1
    /\ redis' = Purge(redis, now + 1)
    /\ win' = [ip \in ClientIPs |-> IF WinOpen(win[ip], now + 1) THEN win[ip] ELSE NoWin]
    /\ resp' = NoResp
    /\ UNCHANGED <<users, nextUid, issued, nextJti, revoked, streak, lockedAt, cap, reqs,
                       board>>

\* POST /register -> AuthService.create_user
Register(email, password) ==
    LET c == create_user(users, nextUid + 1, email, get_password_hash(password))
    IN  /\ IF is_email_taken(users, email)
           THEN /\ resp' = Resp("register", 422, "duplicate")
                /\ UNCHANGED <<users, nextUid>>
           ELSE IF c.raised
           THEN /\ resp' = Resp("register", 500, "register_error")
                /\ UNCHANGED <<users, nextUid>>
           ELSE /\ nextUid < cap.users
                /\ nextUid' = nextUid + 1
                /\ users' = c.users
                /\ resp' = [Resp("register", 201, "") EXCEPT !.uid = nextUid + 1]
        /\ UNCHANGED <<now, redis, issued, nextJti, revoked, streak, lockedAt, win, cap,
                       reqs, board>>

\* whether a store call that the rate limiter made for this client raised:
\* GET always, SET when there is no readable counter, INCR below the limit
StoreErr(ip, okGet, okSet, okIncr) ==
    LET k == <<"rate_limit", "login", ip>>
    IN  \/ ~okGet
        \/ k \notin DOMAIN redis /\ ~okSet
        \/ k \in DOMAIN redis /\ redis[k].val < LoginRateLimit /\ ~okIncr

\* why a login was turned down, read off the users table
LoginCause(email, password) ==
    LET uid == get_by_email(users, email)
    IN  IF uid = 0 THEN "unknown_email"
        ELSE IF ~MayLogin(uid) THEN "cannot_login"
        ELSE IF ~PwMatches(uid, password) THEN "wrong_password"
        ELSE ""

\* POST /login: apply_login_rate_limit, AuthService.authenticate_user, tokens
Login(ip, email, password, F) ==
    \E okGet \in F, okSet \in F, okIncr \in F :
    LET rl == is_allowed(redis, ip, LoginRateLimit, WindowSec, "login", now, okGet, okSet, okIncr)
        a == authenticate_user(users, email, password, now)
        acct == get_by_email(users, email)
        err == StoreErr(ip, okGet, okSet, okIncr)
    IN  /\ redis' = rl.redis
        /\ WinCall(ip)
        /\ IF rl.raised
           THEN /\ resp' = [Resp("login", 500, "rate_limit_error") EXCEPT
                               !.ip = ip, !.store_err = err]
                /\ UNCHANGED <<users, issued, nextJti, streak, lockedAt>>
           ELSE IF ~rl.allowed
           THEN /\ resp' = [Resp("login", 429, "rate_limited") EXCEPT
                               !.ip = ip, !.store_err = err]
                /\ UNCHANGED <<users, issued, nextJti, streak, lockedAt>>
           ELSE IF a.raised
           THEN /\ resp' = [Resp("login", 500, "login_error") EXCEPT
                               !.ip = ip, !.cause = LoginCause(email, password),
                               !.store_err = err]
                /\ UNCHANGED <<users, issued, nextJti, streak, lockedAt>>
           ELSE IF a.user = 0
           THEN /\ acct # 0 /\ a.users # users =>
                        users[acct].failed_login_attempts < cap.fails
                /\ users' = a.users
                /\ resp' = [Resp("login", 401, "bad_credentials") EXCEPT
                               !.ip = ip, !.cause = LoginCause(email, password),
                               !.pw_ok = PwMatches(acct, password),
                               !.barred = Barred(acct), !.store_err = err,
                               !.email = email, !.password = password]
                /\ IF acct # 0 THEN StreakFail(acct) ELSE UNCHANGED <<streak, lockedAt>>
                /\ UNCHANGED <<issued, nextJti>>
           ELSE /\ users' = a.users
                /\ Hand(create_access_token(a.user, nextJti + 1, now),
                        create_refresh_token(a.user, nextJti + 2, now))
                /\ resp' = [Served("login", 200, "", a.user, NoFacts) EXCEPT
                               !.access = create_access_token(a.user, nextJti + 1, now),
                               !.refresh = create_refresh_token(a.user, nextJti + 2, now),
                               !.ip = ip, !.pw_ok = PwMatches(acct, password),
                               !.barred = Barred(acct), !.store_err = err,
                               !.fails = users[acct].failed_login_attempts,
                               !.email = email, !.password = password]
                /\ StreakReset(a.user)
        /\ UNCHANGED <<now, nextUid, revoked, cap, reqs, board>>

\* POST /refresh
Refresh(tok, F) ==
    \E okExists \in F, okSet \in F :
    LET v == verify_token(tok, redis, now, okExists)
        fail(detail) ==
            /\ Denied(401, detail)
            /\ UNCHANGED <<redis, issued, nextJti, revoked>>
        failUser(cause) ==
            /\ DeniedUser(cause)
            /\ UNCHANGED <<redis, issued, nextJti, revoked>>
    IN  /\ IF v # "ok" THEN fail(v)
           ELSE IF tok.type # "refresh" THEN fail("bad_type")
           ELSE IF tok.sub \notin DOMAIN users THEN failUser("no_user")
           ELSE IF ~can_login(users[tok.sub], now) THEN failUser("cannot_login")
           ELSE /\ redis' = blacklist_token(tok, redis, now, okSet)
                /\ revoked' = revoked \cup {tok.jti}
                /\ Hand(create_access_token(tok.sub, nextJti + 1, now),
                        create_refresh_token(tok.sub, nextJti + 2, now))
                /\ resp' = [Served("refresh", 200, "", tok.sub, TokFacts(tok, okExists)) EXCEPT
                               !.access = create_access_token(tok.sub, nextJti + 1, now),
                               !.refresh = create_refresh_token(tok.sub, nextJti + 2, now)]
        /\ UNCHANGED <<now, users, nextUid, streak, lockedAt, win, cap, reqs, board>>

\* whether the blacklist write of a logout was attempted and raised: the
\* write is attempted when a whole second of the token's life is left
WriteErr(tok, okSet) == tok.exp * TicksPerSec - now >= TicksPerSec /\ ~okSet

\* logout that also blacklists the refresh token issued with the access token
Logout_ends_session(tok, F) ==
    \E okExists \in F, okSet \in F :
    LET g == get_current_user(tok, users, redis, now, okExists)
    IN  /\ IF g.status # 200
           THEN /\ Denied(g.status, g.detail)
                /\ UNCHANGED <<redis, revoked>>
           ELSE /\ redis' = cache_set(blacklist_token(tok, redis, now, okSet),
                                      BlKey(tok.jti + 1), 1, RefreshTTL, now, okSet)
                /\ revoked' = revoked \cup {tok.jti}
                /\ resp' = [Served("logout", 200, "logged_out", g.uid,
                                   TokFacts(tok, okExists)) EXCEPT
                               !.store_err = WriteErr(tok, okSet)]
        /\ UNCHANGED <<now, users, nextUid, issued, nextJti, streak, lockedAt, win, cap, reqs,
                       board>>
\* logout without its except clauses: a failed blacklist write is answered
\* with an error
Logout_surfaces_errors(tok, F) ==
    \E okExists \in F, okSet \in F :
    LET g == get_current_user(tok, users, redis, now, okExists)
    IN  /\ IF g.status # 200
           THEN /\ Denied(g.status, g.detail)
                /\ UNCHANGED <<redis, revoked>>
           ELSE IF WriteErr(tok, okSet)
           THEN /\ resp' = [Served("logout", 500, "logout_error", g.uid,
                                   TokFacts(tok, okExists)) EXCEPT !.store_err = TRUE]
                /\ UNCHANGED <<redis, revoked>>
           ELSE /\ redis' = blacklist_token(tok, redis, now, okSet)
                /\ revoked' = revoked \cup {tok.jti}
                /\ resp' = Served("logout", 200, "logged_out", g.uid, TokFacts(tok, okExists))
        /\ UNCHANGED <<now, users, nextUid, issued, nextJti, streak, lockedAt, win, cap, reqs,
                       board>>
\* POST /logout
Logout(tok, F) ==
    \E okExists \in F, okSet \in F :
    LET g == get_current_user(tok, users, redis, now, okExists)
    IN  /\ IF g.status # 200
           THEN /\ Denied(g.status, g.detail)
                /\ UNCHANGED <<redis, revoked>>
           ELSE /\ redis' = blacklist_token(tok, redis, now, okSet)
                /\ revoked' = revoked \cup {tok.jti}
                /\ resp' = [Served("logout", 200, "logged_out", g.uid,
                                   TokFacts(tok, okExists)) EXCEPT
                               !.store_err = WriteErr(tok, okSet)]
        /\ UNCHANGED <<now, users, nextUid, issued, nextJti, streak, lockedAt, win, cap, reqs,
                       board>>

\* GET /me
Me(tok, F) ==
    \E okExists \in F :
    LET g == get_current_user(tok, users, redis, now, okExists)
    IN  /\ IF g.status # 200
           THEN Denied(g.status, g.detail)
           ELSE resp' = Served("me", 200, "", g.uid, TokFacts(tok, okExists))
        /\ UNCHANGED <<now, users, nextUid, redis, issued, nextJti, revoked, streak, lockedAt, win, cap, reqs,
                       board>>

\* change_password without the check of the current password
ChangePassword_unverified(tok, current_password, new_password, F) ==
    \E okExists \in F :
    LET g == get_current_user(tok, users, redis, now, okExists)
    IN  /\ IF g.status # 200
           THEN /\ Denied(g.status, g.detail)
                /\ UNCHANGED users
           ELSE /\ users' = [users EXCEPT ![g.uid].password_hash = get_password_hash(new_password)]
                /\ resp' = [Served("change_password", 200, "", g.uid, TokFacts(tok, okExists))
                               EXCEPT !.pw_ok = PwMatches(g.uid, current_password),
                                      !.password = current_password,
                                      !.new_password = new_password]
        /\ UNCHANGED <<now, nextUid, redis, issued, nextJti, revoked, streak, lockedAt, win, cap, reqs,
                       board>>
\* POST /change-password -> AuthService.change_password
ChangePassword(tok, current_password, new_password, F) ==
    \E okExists \in F :
    LET g == get_current_user(tok, users, redis, now, okExists)
        answer(status, detail) ==
            [Served("change_password", status, detail, g.uid, TokFacts(tok, okExists))
                EXCEPT !.pw_ok = PwMatches(g.uid, current_password),
                       !.password = current_password,
                       !.new_password = new_password]
    IN  /\ IF g.status # 200
           THEN /\ Denied(g.status, g.detail)
                /\ UNCHANGED users
           ELSE IF ~verify_password(current_password, users[g.uid].password_hash)
           THEN /\ resp' = answer(400, "wrong_current")
                /\ UNCHANGED users
           ELSE /\ users' = [users EXCEPT ![g.uid].password_hash = get_password_hash(new_password)]
                /\ resp' = answer(200, "")
        /\ UNCHANGED <<now, nextUid, redis, issued, nextJti, revoked, streak, lockedAt, win, cap, reqs,
                       board>>

\* settings.is_development
is_development == cap.env = "development"

\* POST /password-reset-request -> AuthService.generate_password_reset_token;
\* the token reaches the client in the response only, no mail is sent
RequestPasswordReset(email) ==
    LET uid == get_by_email(users, email)
        reset_token == IF uid = 0 THEN NoToken
                       ELSE IF ~users[uid].is_active THEN NoToken
                       ELSE generate_password_reset_token(uid, now)
    IN  /\ reset_token # NoToken =>
               Cardinality({t \in issued \cup {reset_token} :
                               t.type = TOKEN_TYPE_PASSWORD_RESET}) <= MaxResetTokens
        /\ issued' = IF reset_token = NoToken \/ ~is_development
                     THEN issued ELSE issued \cup {reset_token}
        /\ resp' = [Resp("reset_request", 200, "sent_if_registered") EXCEPT
                       !.access = IF is_development THEN reset_token ELSE NoToken,
                       !.cause = IF uid = 0 THEN "unknown_email" ELSE ""]
        /\ UNCHANGED <<now, users, nextUid, redis, nextJti, revoked, streak, lockedAt, win, cap, reqs,
                       board>>

\* the e-mail address confirm_password_reset hands to reset_password
ConfirmEmailArg == ""

\* POST /password-reset-confirm -> AuthService.reset_password
ConfirmPasswordReset(tok, new_password) ==
    LET user_id == verify_password_reset_token(tok, now)
        fail(detail, facts, cause) ==
            /\ resp' = [Resp("reset_confirm", 400, detail) EXCEPT
                           !.facts = facts, !.cause = cause]
            /\ UNCHANGED <<users, streak, lockedAt>>
    IN  /\ IF user_id = 0 THEN fail("bad_reset_token", NoFacts, "")
           ELSE IF user_id \notin DOMAIN users
           THEN fail("user_not_found", TokFacts(tok, TRUE), "no_user")
           ELSE IF users[user_id].email # ConfirmEmailArg
           THEN fail("user_not_found", TokFacts(tok, TRUE), "email_mismatch")
           ELSE /\ users' = [users EXCEPT ![user_id] =
                       LET u == [@ EXCEPT !.password_hash = get_password_hash(new_password)]
                       IN  IF is_locked(u, now) THEN unlock_user(u) ELSE u]
                /\ IF is_locked(users[user_id], now)
                   THEN StreakReset(user_id)
                   ELSE UNCHANGED <<streak, lockedAt>>
                /\ resp' = Served("reset_confirm", 200, "", user_id, TokFacts(tok, TRUE))
        /\ UNCHANGED <<now, nextUid, redis, issued, nextJti, revoked, win, cap, reqs, board>>

\* DELETE /users/me -> UserService.delete_user_account
DeleteMe(tok, permanent, F) ==
    \E okExists \in F :
    LET g == get_current_user(tok, users, redis, now, okExists)
    IN  /\ IF g.status # 200
           THEN /\ Denied(g.status, g.detail)
                /\ UNCHANGED users
           ELSE /\ users' = IF permanent
                            THEN [i \in DOMAIN users \ {g.uid} |-> users[i]]
                            ELSE [users EXCEPT ![g.uid].is_active = FALSE]
                /\ resp' = Served("delete_me", 204, "", g.uid, TokFacts(tok, okExists))
        /\ UNCHANGED <<now, nextUid, redis, issued, nextJti, revoked, streak, lockedAt, win, cap, reqs,
                       board>>

\* AuthService.deactivate_user
DeactivateUser(uid) ==
    /\ uid \in DOMAIN users
    /\ users' = [users EXCEPT ![uid].is_active = FALSE]
    /\ resp' = Resp("deactivate", 200, "")
    /\ UNCHANGED <<now, nextUid, redis, issued, nextJti, revoked, streak, lockedAt, win, cap, reqs,
                       board>>

\* AuthService.unlock_user_account (administrative unlock)
UnlockUser(uid) ==
    /\ uid \in DOMAIN users
    /\ users' = [users EXCEPT ![uid] = unlock_user(@)]
    /\ StreakReset(uid)
    /\ resp' = Resp("unlock", 200, "")
    /\ UNCHANGED <<now, nextUid, redis, issued, nextJti, revoked, win, cap, reqs, board>>

\* ------------------------------------------- POST /refresh, await by await
\* up to "payload = await security_manager.verify_token(token)" and the
\* type check that follows it
RefreshVerify(p, tok, F) ==
    \E okExists \in F :
    LET v == verify_token(tok, redis, now, okExists)
        d == IF v # "ok" THEN v ELSE IF tok.type # "refresh" THEN "bad_type" ELSE ""
    IN  /\ reqs[p].pc = "idle"
        /\ IF d # ""
           THEN /\ Denied(401, d)
                /\ reqs' = [reqs EXCEPT ![p] = [pc |-> "done", tok |-> tok, status |-> 401]]
           ELSE /\ reqs' = [reqs EXCEPT ![p] = [pc |-> "verified", tok |-> tok, status |-> 0]]
                /\ UNCHANGED resp
        /\ UNCHANGED <<now, users, nextUid, redis, issued, nextJti, revoked, streak, lockedAt,
                       win, cap, board>>

\* "user = await user_crud.get(...)" and the can_login check
RefreshLoadUser(p) ==
    LET tok == reqs[p].tok
    IN  /\ reqs[p].pc = "verified"
        /\ IF tok.sub \notin DOMAIN users
           THEN /\ DeniedUser("no_user")
                /\ reqs' = [reqs EXCEPT ![p].pc = "done", ![p].status = 401]
           ELSE IF ~can_login(users[tok.sub], now)
           THEN /\ DeniedUser("cannot_login")
                /\ reqs' = [reqs EXCEPT ![p].pc = "done", ![p].status = 401]
           ELSE /\ reqs' = [reqs EXCEPT ![p].pc = "loaded"]
                /\ UNCHANGED resp
        /\ UNCHANGED <<now, users, nextUid, redis, issued, nextJti, revoked, streak, lockedAt,
                       win, cap, board>>

\* "await security_manager.blacklist_token(token)" and the new pair
RefreshRotate(p, F) ==
    \E okSet \in F :
    LET tok == reqs[p].tok
    IN  /\ reqs[p].pc = "loaded"
        /\ redis' = blacklist_token(tok, redis, now, okSet)
        /\ revoked' = revoked \cup {tok.jti}
        /\ Hand(create_access_token(tok.sub, nextJti + 1, now),
                create_refresh_token(tok.sub, nextJti + 2, now))
        /\ resp' = [Served("refresh", 200, "", tok.sub, TokFacts(tok, TRUE)) EXCEPT
                       !.access = create_access_token(tok.sub, nextJti + 1, now),
                       !.refresh = create_refresh_token(tok.sub, nextJti + 2, now)]
        /\ reqs' = [reqs EXCEPT ![p].pc = "done", ![p].status = 200]
        /\ UNCHANGED <<now, users, nextUid, streak, lockedAt, win, cap, board>>

\* --------------------------------------------- POST /register, await by await
RegIdle == [pc |-> "idle", email |-> "", password |-> "", taken |-> FALSE, status |-> 0]

\* whether a credential for the address, lower-cased and trimmed, is stored
EmailRegistered(email) ==
    lower_strip(email) \in {users[i].email : i \in DOMAIN users}

\* "if await user_crud.is_email_taken(db, email=user_in.email)"
RegisterCheck(p, email, password) ==
    LET r == [pc |-> "checked", email |-> email, password |-> password,
              taken |-> EmailRegistered(email), status |-> 0]
    IN  /\ reqs[p].pc \in {"idle", "done"}
        /\ IF is_email_taken(users, email)
           THEN /\ resp' = Resp("register", 422, "duplicate")
                /\ reqs' = [reqs EXCEPT ![p] = [r EXCEPT !.pc = "done", !.status = 422]]
           ELSE /\ reqs' = [reqs EXCEPT ![p] = r]
                /\ UNCHANGED resp
        /\ UNCHANGED <<now, users, nextUid, redis, issued, nextJti, revoked, streak,
                       lockedAt, win, cap, board>>

\* "user = await user_crud.create_user(...)" and the answer
RegisterInsert(p) ==
    LET c == create_user(users, nextUid + 1, reqs[p].email,
                         get_password_hash(reqs[p].password))
    IN  /\ reqs[p].pc = "checked"
        /\ IF c.raised
           THEN /\ resp' = Resp("register", 500, "register_error")
                /\ reqs' = [reqs EXCEPT ![p].pc = "done", ![p].status = 500]
                /\ UNCHANGED <<users, nextUid>>
           ELSE /\ nextUid < cap.users
                /\ nextUid' = nextUid + 1
                /\ users' = c.users
                /\ resp' = [Resp("register", 201, "") EXCEPT !.uid = nextUid + 1]
                /\ reqs' = [reqs EXCEPT ![p].pc = "done", ![p].status = 201]
        /\ UNCHANGED <<now, redis, issued, nextJti, revoked, streak, lockedAt, win, cap, board>>

\* --------------------------------------------------------------- task board
\* the tasks of user_id in column status (get_by_status_list)
get_by_status_list(ts, user_id, status) ==
    {i \in DOMAIN ts : ts[i].user_id = user_id /\ ts[i].status = status}

\* _create_task_tag_associations that does not ask whose tag it is
create_task_tag_associations_any_owner(tg, task_id, tag_ids, user_id) ==
    {<<task_id, t>> : t \in {x \in tag_ids : x \in DOMAIN tg /\ tg[x].is_active}}
\* CRUDTask._create_task_tag_associations: one row per requested tag that is
\* active and belongs to user_id
create_task_tag_associations(tg, task_id, tag_ids, user_id) ==
    {<<task_id, t>> : t \in {x \in tag_ids : /\ x \in DOMAIN tg
                                             /\ tg[x].user_id = user_id
                                             /\ tg[x].is_active}}

\* CRUDTask._update_task_tag_associations: the rows of the task are deleted
\* and made anew
update_task_tag_associations(links, tg, task_id, tag_ids, user_id) ==
    {l \in links : l[1] # task_id}
        \cup create_task_tag_associations(tg, task_id, tag_ids, user_id)

\* CRUDTask.update_status on one row
update_status(row, status, t) ==
    LET completed == IF status = TaskStatusDone /\ row.completed_at = None THEN t
                     ELSE IF status # TaskStatusDone /\ row.completed_at # None THEN None
                     ELSE row.completed_at
    IN  [row EXCEPT !.status = status, !.completed_at = completed]

\* _calculate_position_updates that leaves a task standing at the insertion
\* position where it is
calculate_position_updates_strict(ts, user_id, target, old_status, old_position, new_status, new_position) ==
    LET move(i, by) == [id |-> i, position |-> ts[i].position + by, status |-> Unset]
        main == [id |-> target, position |-> new_position,
                 status |-> IF new_status # old_status THEN new_status ELSE Unset]
        old_group == get_by_status_list(ts, user_id, old_status)
        new_group == get_by_status_list(ts, user_id, new_status)
    IN  {main} \cup
        IF new_status # old_status
        THEN {move(i, -1) : i \in {j \in old_group :
                                      j # target /\ ts[j].position > old_position}}
             \cup {move(i, 1) : i \in {j \in new_group : ts[j].position > new_position}}
        ELSE IF new_position > old_position
        THEN {move(i, -1) : i \in {j \in old_group :
                  j # target /\ old_position < ts[j].position /\ ts[j].position <= new_position}}
        ELSE {move(i, 1) : i \in {j \in old_group :
                  j # target /\ new_position < ts[j].position /\ ts[j].position < old_position}}
\* TaskService._calculate_position_updates: the rows to rewrite, one per task
calculate_position_updates(ts, user_id, target, old_status, old_position, new_status, new_position) ==
    LET move(i, by) == [id |-> i, position |-> ts[i].position + by, status |-> Unset]
        main == [id |-> target, position |-> new_position,
                 status |-> IF new_status # old_status THEN new_status ELSE Unset]
        old_group == get_by_status_list(ts, user_id, old_status)
        new_group == get_by_status_list(ts, user_id, new_status)
    IN  {main} \cup
        IF new_status # old_status
        THEN {move(i, -1) : i \in {j \in old_group :
                                      j # target /\ ts[j].position > old_position}}
             \cup {move(i, 1) : i \in {j \in new_group : ts[j].position >= new_position}}
        ELSE IF new_position > old_position
        THEN {move(i, -1) : i \in {j \in old_group :
                  j # target /\ old_position < ts[j].position /\ ts[j].position <= new_position}}
        ELSE IF new_position < old_position
        THEN {move(i, 1) : i \in {j \in old_group :
                  j # target /\ new_position <= ts[j].position /\ ts[j].position < old_position}}
        ELSE {}

\* CRUDTask.update_positions: one UPDATE per entry, restricted to the rows
\* of user_id; it writes position and, when given, status, nothing else
update_positions(ts, position_updates, user_id) ==
    [i \in DOMAIN ts |->
        IF ts[i].user_id = user_id /\ \E u \in position_updates : u.id = i
        THEN LET u == CHOOSE x \in position_updates : x.id = i
             IN  [ts[i] EXCEPT !.position = u.position,
                               !.status = IF u.status # Unset THEN u.status ELSE @]
        ELSE ts[i]]

\* the answer to a task or tag request, with what the request asked for
TaskResp(op, status, task_id, tag_ids) ==
    [op |-> op, status |-> status, task_id |-> task_id, tag_ids |-> tag_ids,
     new_status |-> Unset, new_position |-> None]

\* POST /tasks -> TaskService.create_task -> CRUDTask.create_with_tags
CreateTask(uid, status, position, tag_ids) ==
    /\ nextTask < cap.tasks
    /\ nextTask' = nextTask + 1
    /\ tasks' = [i \in DOMAIN tasks \cup {nextTask + 1} |->
                    IF i = nextTask + 1
                    THEN [user_id |-> uid, status |-> status, position |-> position,
                          completed_at |-> None]
                    ELSE tasks[i]]
    /\ task_tags' = task_tags \cup
                        create_task_tag_associations(tags, nextTask + 1, tag_ids, uid)
    /\ resp' = TaskResp("create_task", 201, nextTask + 1, tag_ids)
    /\ UNCHANGED <<tags, account>>

\* PUT /tasks/{task_id} -> TaskService.update_task -> CRUDTask.update_with_tags;
\* status, position and tag_ids may each be left unset
UpdateTask(uid, task_id, status, position, tag_ids) ==
    /\ IF task_id \notin DOMAIN tasks \/ tasks[task_id].user_id # uid
       THEN /\ resp' = TaskResp("update_task", 400, task_id, tag_ids)
            /\ UNCHANGED <<tasks, task_tags>>
       ELSE /\ tasks' = [tasks EXCEPT ![task_id] =
                           LET row == IF status = Unset THEN @ ELSE update_status(@, status, now)
                           IN  IF position = None THEN row ELSE [row EXCEPT !.position = position]]
            /\ task_tags' = IF tag_ids = NoTagIds THEN task_tags
                            ELSE update_task_tag_associations(task_tags, tags, task_id,
                                                              tag_ids, uid)
            /\ resp' = TaskResp("update_task", 200, task_id, tag_ids)
    /\ UNCHANGED <<nextTask, tags, account>>

\* PATCH /tasks/{task_id}/status -> TaskService.update_task_status
UpdateTaskStatus(uid, task_id, status) ==
    /\ IF task_id \notin DOMAIN tasks \/ tasks[task_id].user_id # uid
       THEN /\ resp' = TaskResp("update_status", 400, task_id, NoTagIds)
            /\ UNCHANGED tasks
       ELSE /\ tasks' = [tasks EXCEPT ![task_id] = update_status(@, status, now)]
            /\ resp' = TaskResp("update_status", 200, task_id, NoTagIds)
    /\ UNCHANGED <<nextTask, tags, task_tags, account>>

\* PATCH /tasks/reorder -> TaskService.reorder_tasks; new_status may be unset
ReorderTasks(uid, task_id, new_status, new_position) ==
    /\ IF task_id \notin DOMAIN tasks \/ tasks[task_id].user_id # uid
       THEN /\ resp' = TaskResp("reorder", 400, task_id, NoTagIds)
            /\ UNCHANGED tasks
       ELSE LET old_status == tasks[task_id].status
                old_position == tasks[task_id].position
                status == IF new_status # Unset THEN new_status ELSE old_status
            IN  /\ IF old_status = status /\ old_position = new_position
                   THEN UNCHANGED tasks
                   ELSE tasks' = update_positions(tasks,
                                     calculate_position_updates(tasks, uid, task_id, old_status,
                                         old_position, status, new_position), uid)
                /\ \A i \in DOMAIN tasks : tasks'[i].position <= cap.pos
                /\ resp' = [TaskResp("reorder", 200, task_id, NoTagIds) EXCEPT
                               !.new_status = new_status, !.new_position = new_position]
    /\ UNCHANGED <<nextTask, tags, task_tags, account>>

\* DELETE /tags/{tag_id} -> TagService.delete_tag without force_delete: a tag
\* that no task uses is switched to inactive
DeleteTag(uid, tag_id) ==
    /\ IF tag_id \notin DOMAIN tags \/ tags[tag_id].user_id # uid
       THEN /\ resp' = TaskResp("delete_tag", 400, None, {tag_id})
            /\ UNCHANGED tags
       ELSE IF \E l \in task_tags : l[2] = tag_id
       THEN /\ resp' = TaskResp("delete_tag", 400, None, {tag_id})
            /\ UNCHANGED tags
       ELSE /\ tags' = [tags EXCEPT ![tag_id].is_active = FALSE]
            /\ resp' = TaskResp("delete_tag", 204, None, {tag_id})
    /\ UNCHANGED <<tasks, nextTask, task_tags, account>>

\* ------------------------------------------------------------------ Spec
Nominal == {TRUE}

\* the requests that present a token; F: outcomes of the blacklist calls
TokenRequests(F) ==
    \/ \E tok \in Presentable : Refresh(tok, F)
    \/ \E tok \in Presentable : Logout(tok, F)
    \/ \E tok \in Presentable : Me(tok, F)

\* G: outcomes of the rate limiter's calls
Enter(G) ==
    \/ \E e \in Emails, p \in Passwords : Register(e, p)
    \/ \E ip \in ClientIPs, e \in Emails \cup {UnknownEmail}, p \in Passwords :
          Login(ip, e, p, G)

\* what an operator does to an account
Administer ==
    \/ \E uid \in 1..MaxUsers : DeactivateUser(uid)
    \/ \E uid \in 1..MaxUsers : UnlockUser(uid)

\* what a user does to the own account
Manage(F) ==
    \/ \E tok \in Presentable, c \in Passwords, n \in Passwords :
          ChangePassword(tok, c, n, F)
    \/ \E e \in Emails \cup {UnknownEmail} : RequestPasswordReset(e)
    \/ \E tok \in Presentable, n \in Passwords : ConfirmPasswordReset(tok, n)
    \/ \E tok \in Presentable, perm \in BOOLEAN : DeleteMe(tok, perm, F)

Next == Tick \/ Enter(Nominal) \/ TokenRequests(Nominal) \/ Administer

\* sessions and lockout; every call to the shared store answers
Spec == Init /\ [][Next]_vars

NextFault == Tick \/ Enter(Nominal) \/ TokenRequests(BOOLEAN)

\* any call to the token blacklist may raise RedisError
SpecFault == Init /\ [][NextFault]_vars

NextRateFault == Tick \/ Enter(BOOLEAN)

\* any call the rate limiter makes to the store may raise RedisError
SpecRateFault == Init /\ [][NextRateFault]_vars

NextAccount == Tick \/ Enter(Nominal) \/ TokenRequests(Nominal) \/ Manage(Nominal)

InitAccount ==
    /\ InitState
    /\ reqs = [p \in 1..MaxConcurrent |-> Idle]
    /\ \E e \in Environments :
          cap = [time |-> AccountMaxTime, jti |-> MaxJti, fails |-> AccountMaxFails, env |-> e,
                 users |-> MaxUsers, tasks |-> 0, pos |-> 0]

\* account management: password change and reset, account deletion
SpecAccount == InitAccount /\ [][NextAccount]_vars

\* the state after one user registered and logged in at time 0
InitRace ==
    /\ now = 0
    /\ users = <<[email |-> CHOOSE e \in Emails : TRUE,
                  password_hash |-> get_password_hash("Passw0rd!"),
                  is_active |-> TRUE, failed_login_attempts |-> 0,
                  locked_until |-> None]>>
    /\ nextUid = 1
    /\ redis = is_allowed(<<>>, CHOOSE ip \in ClientIPs : TRUE, LoginRateLimit, WindowSec,
                          "login", 0, TRUE, TRUE, TRUE).redis
    /\ issued = {create_access_token(1, 1, 0), create_refresh_token(1, 2, 0)}
    /\ nextJti = 2
    /\ resp = [Resp("login", 200, "") EXCEPT
                  !.uid = 1, !.could = TRUE, !.pw_ok = TRUE,
                  !.ip = CHOOSE ip \in ClientIPs : TRUE,
                  !.access = create_access_token(1, 1, 0),
                  !.refresh = create_refresh_token(1, 2, 0)]
    /\ revoked = {}
    /\ streak = [i \in 1..MaxUsers |-> 0]
    /\ lockedAt = [i \in 1..MaxUsers |-> None]
    /\ win = [ip \in ClientIPs |-> [start |-> 0, calls |-> 1]]
    /\ reqs = [p \in 1..MaxConcurrent |-> Idle]
    /\ tasks = <<>>
    /\ nextTask = 0
    /\ tags = <<>>
    /\ task_tags = {}
    /\ cap = [time |-> RaceMaxTime, jti |-> RaceMaxJti, fails |-> 0, env |-> DefaultEnvironment,
              users |-> MaxUsers, tasks |-> 0, pos |-> 0]

NextRace ==
    \/ Tick
    \/ \E p \in 1..MaxConcurrent, tok \in Presentable : RefreshVerify(p, tok, Nominal)
    \/ \E p \in 1..MaxConcurrent : RefreshLoadUser(p)
    \/ \E p \in 1..MaxConcurrent : RefreshRotate(p, Nominal)
    \/ \E uid \in 1..MaxUsers : DeactivateUser(uid)

InitRegister ==
    /\ InitState
    /\ reqs = [p \in 1..MaxConcurrent |-> RegIdle]
    /\ cap = [time |-> 0, jti |-> 0, fails |-> 0, env |-> DefaultEnvironment,
              users |-> RegMaxUsers, tasks |-> 0, pos |-> 0]

NextRegister ==
    \/ \E p \in 1..MaxConcurrent, e \in RawEmails, pw \in Passwords : RegisterCheck(p, e, pw)
    \/ \E p \in 1..MaxConcurrent : RegisterInsert(p)

\* registrations handled concurrently, interleaved at their awaits
SpecRegister == InitRegister /\ [][NextRegister]_vars

\* the e-mail address of the i-th registered user
BoardEmail(i) == CASE i = 1 -> "a@x.com" [] i = 2 -> "b@x.com" [] OTHER -> "c@x.com"

\* the state after n users registered and each of them created one tag
InitBoard(n) ==
    /\ now = 0
    /\ users = [i \in 1..n |->
                  [email |-> BoardEmail(i), password_hash |-> get_password_hash("Passw0rd!"),
                   is_active |-> TRUE, failed_login_attempts |-> 0, locked_until |-> None]]
    /\ nextUid = n
    /\ redis = <<>>
    /\ issued = {}
    /\ nextJti = 0
    /\ resp = NoResp
    /\ revoked = {}
    /\ streak = [i \in 1..n |-> 0]
    /\ lockedAt = [i \in 1..n |-> None]
    /\ win = [ip \in ClientIPs |-> NoWin]
    /\ reqs = [p \in 1..MaxConcurrent |-> Idle]
    /\ tags = [i \in 1..n |-> [user_id |-> i, is_active |-> TRUE]]
    /\ task_tags = {}

BoardCap(t, p) ==
    [time |-> 0, jti |-> 0, fails |-> 0, env |-> DefaultEnvironment, users |-> 0,
     tasks |-> t, pos |-> p]

\* one user and an empty board
InitTask ==
    /\ InitBoard(1)
    /\ tasks = <<>>
    /\ nextTask = 0
    /\ cap = BoardCap(MaxTasks, MaxPosition)

NextTask ==
    \/ \E uid \in DOMAIN users, st \in Columns, pos \in 0..cap.pos :
          CreateTask(uid, st, pos, {})
    \/ \E uid \in DOMAIN users, id \in 1..cap.tasks, st \in Columns \cup {Unset},
          pos \in {None} \cup 0..cap.pos : UpdateTask(uid, id, st, pos, NoTagIds)
    \/ \E uid \in DOMAIN users, id \in 1..cap.tasks, st \in Columns :
          UpdateTaskStatus(uid, id, st)
    \/ \E uid \in DOMAIN users, id \in 1..cap.tasks, st \in Columns \cup {Unset},
          pos \in 0..cap.pos : ReorderTasks(uid, id, st, pos)

\* a user working on the tasks of the board
SpecTask == InitTask /\ [][NextTask]_vars

\* whether the positions of the tasks of user_id in column status are
\* exactly 0..n-1
Dense(ts, user_id, status) ==
    LET g == {i \in DOMAIN ts : ts[i].user_id = user_id /\ ts[i].status = status}
    IN  /\ {ts[i].position : i \in g} = 0..(Cardinality(g) - 1)
        /\ \A i, j \in g : ts[i].position = ts[j].position => i = j

\* any board of ReorderMaxTasks tasks on which every column of every user
\* is numbered 0..n-1
InitReorder ==
    /\ InitBoard(BoardUsers)
    /\ nextTask = ReorderMaxTasks
    /\ tasks \in [1..ReorderMaxTasks ->
                     [user_id : 1..BoardUsers, status : Columns,
                      position : 0..(ReorderMaxTasks - 1), completed_at : {None}]]
    /\ \A u \in 1..BoardUsers, st \in Columns : Dense(tasks, u, st)
    /\ cap = BoardCap(ReorderMaxTasks, ReorderMaxTasks)

\* one call on the board; the boards it leads to from a board numbered
\* without gaps are initial states themselves
NextReorder ==
    \E uid \in DOMAIN users, id \in 1..cap.tasks, st \in Columns \cup {Unset},
       pos \in 0..cap.pos :
          /\ resp = NoResp
          /\ ReorderTasks(uid, id, st, pos)

\* drag and drop on a board whose columns are numbered without gaps
SpecReorder == InitReorder /\ [][NextReorder]_vars

\* the tag ids a request may name: those of the tags table and one that no
\* tag carries
TagIds == 1..(BoardUsers + 1)

InitTag ==
    /\ InitBoard(BoardUsers)
    /\ tasks = <<>>
    /\ nextTask = 0
    /\ cap = BoardCap(TagMaxTasks, 0)

NextTag ==
    \/ \E uid \in DOMAIN users, ids \in SUBSET TagIds :
          CreateTask(uid, "todo", DEFAULT_POSITION, ids)
    \/ \E uid \in DOMAIN users, id \in 1..cap.tasks, ids \in SUBSET TagIds \cup {NoTagIds} :
          UpdateTask(uid, id, Unset, None, ids)
    \/ \E uid \in DOMAIN users, t \in TagIds : DeleteTag(uid, t)

\* users tagging their tasks
SpecTag == InitTag /\ [][NextTag]_vars

\* refresh requests handled concurrently, interleaved at their awaits
SpecRace == InitRace /\ [][NextRace]_vars

\* ---------------------------------------------------------------- claims
AuthOps == {"me", "logout", "change_password", "delete_me"}
Accepted == resp.uid # 0 /\ resp.op \in AuthOps \cup {"refresh"}
Expects(op) == IF op = "refresh" THEN TOKEN_TYPE_REFRESH ELSE TOKEN_TYPE_ACCESS
LoginOk == resp.op = "login" /\ resp.status = 200

\* C1: a refresh token that has already been exchanged for a new pair is
\* never exchanged again: no successful refresh presents a token whose jti
\* an earlier successful refresh has blacklisted
C1_RefreshTokenIsSingleUse ==
    resp.op = "refresh" /\ resp.status = 200 => ~resp.facts.replay

\* C2: after a successful logout the access token that was presented is
\* refused by every token-verifying request until it expires: no
\* authenticated request is served for a token that was logged out
C2_LoggedOutTokenIsRefused ==
    resp.op \in AuthOps /\ resp.uid # 0 => ~resp.facts.replay

\* C3 as stated: a token is accepted only if its signature verifies, it has
\* not expired, it has the type the operation expects and its jti is absent
\* from the revocation store
C3_AcceptedOnlyIfAbsentFromStore ==
    Accepted =>
        /\ resp.facts.sig
        /\ ~resp.facts.expired
        /\ resp.facts.type = Expects(resp.op)
        /\ ~resp.facts.listed

\* C3 as amended: a token is accepted only if its signature verifies, it
\* has not expired, it has the type the operation expects and either its
\* jti is absent from the revocation store or the lookup of the jti failed
C3_AcceptedOnlyIfValid ==
    Accepted =>
        /\ resp.facts.sig
        /\ ~resp.facts.expired
        /\ resp.facts.type = Expects(resp.op)
        /\ ~resp.facts.listed \/ ~resp.facts.lookup_ok

C3_Witness == Accepted /\ resp.facts.listed /\ ~resp.facts.lookup_ok

\* C4: once MaxAttempts consecutive logins on an account have failed, a
\* login succeeds only after the lockout duration has run out or after an
\* explicit unlock, even with the correct password
C4_Lockout == LoginOk => ~resp.barred

C4_Witness ==
    /\ resp.op = "login" /\ resp.status = 401
    /\ resp.pw_ok /\ resp.barred

\* C5: within one window the rate limiter admits exactly the first
\* LoginRateLimit calls of a client and rejects every further one; the
\* first call after the window has run out is admitted again
C5_FixedWindow ==
    resp.op = "login" =>
        (resp.status = 429 <=> win[resp.ip].calls > LoginRateLimit)

C5_Witness == resp.op = "login" /\ resp.status = 429

\* C6: of the concurrent refresh requests that present the same refresh
\* token at most one returns a new pair
C6_SingleUseUnderConcurrency ==
    \A p, q \in 1..MaxConcurrent :
        p # q /\ reqs[p].status = 200 /\ reqs[q].status = 200
            => reqs[p].tok # reqs[q].tok

\* C7: get_current_user accepts only access tokens, the refresh endpoint
\* only refresh tokens and password-reset confirmation only password-reset
\* tokens
C7_TypesExclusive ==
    /\ resp.op \in AuthOps /\ resp.uid # 0 => resp.facts.type = TOKEN_TYPE_ACCESS
    /\ resp.op = "refresh" /\ resp.status = 200 => resp.facts.type = TOKEN_TYPE_REFRESH
    /\ resp.op = "reset_confirm" /\ resp.detail # "bad_reset_token"
           => resp.facts.type = TOKEN_TYPE_PASSWORD_RESET

C7_Witness == resp.op = "denied" /\ resp.detail = "bad_type"

\* C8: a login that is turned down for an unknown e-mail, for a wrong
\* password or for an account that cannot log in gets the same status and
\* the same message
C8_NoEnumeration ==
    resp.op = "login" /\ resp.cause # "" =>
        resp.status = 401 /\ resp.detail = "bad_credentials"

C8_Witness == resp.op = "login" /\ resp.cause = "unknown_email"

\* C9: no login, refresh or authenticated request is served for a user
\* who cannot log in (inactive, or locked and the lock not yet run out)
C9_NoServiceWhileCannotLogin ==
    resp.uid # 0 /\ resp.op \in AuthOps \cup {"refresh", "login"} => resp.could

C9_Witness ==
    /\ resp.op = "login" /\ resp.status = 401
    /\ resp.cause = "cannot_login" /\ resp.pw_ok

\* C10: after a successful login the user's failure counter is 0 and
\* locked_until is None, and the response carries an access token and a
\* refresh token whose subject is that user
C10_LoginResets ==
    LoginOk =>
        /\ users[resp.uid].failed_login_attempts = 0
        /\ users[resp.uid].locked_until = None
        /\ resp.access.type = TOKEN_TYPE_ACCESS /\ resp.access.sub = resp.uid
        /\ resp.refresh.type = TOKEN_TYPE_REFRESH /\ resp.refresh.sub = resp.uid

C10_Witness == LoginOk /\ resp.fails > 0

\* C11: whenever a store call made by is_allowed raises, the login is not
\* rate limited and no error of the rate limiter reaches the caller
C11_RateLimiterFailsOpen ==
    resp.op = "login" /\ resp.store_err =>
        resp.status # 429 /\ resp.detail # "rate_limit_error"

C11_Witness ==
    /\ resp.op = "login" /\ resp.store_err
    /\ win[resp.ip].calls > LoginRateLimit
    /\ resp.status \in {200, 401}

\* C12: an authenticated logout is always answered with success, also
\* when the blacklist write raised
C12_LogoutBestEffort ==
    resp.op = "logout" => resp.status = 200 /\ resp.detail = "logged_out"

C12_Witness == resp.op = "logout" /\ resp.store_err /\ ~resp.facts.listed

\* C13: the response to a password-reset request is the same whether or
\* not the e-mail is registered: same status, same message and the same
\* data as for an unregistered e-mail, which carries no token
C13_ResetRequestNoLeak ==
    resp.op = "reset_request" =>
        /\ resp.status = 200
        /\ resp.detail = "sent_if_registered"
        /\ resp.access = NoToken

\* C14: a password-reset confirmation that presents a valid, unexpired
\* password-reset token of an existing user succeeds
C14_ResetConfirmSucceeds ==
    /\ resp.op = "reset_confirm"
    /\ resp.facts.sig /\ ~resp.facts.expired
    /\ resp.facts.type = TOKEN_TYPE_PASSWORD_RESET
    /\ resp.cause # "no_user"
    => resp.status = 200

Lifetime(type) ==
    CASE type = TOKEN_TYPE_ACCESS -> AccessTTL * TicksPerSec
      [] type = TOKEN_TYPE_REFRESH -> RefreshTTL * TicksPerSec
      [] OTHER -> ResetTTL * TicksPerSec
\* how far past the last issuance the lifetime of a token is followed
Horizon == MaxTime + RefreshTTL * TicksPerSec + TicksPerSec
\* a store that holds the blacklist entry of tok at time t
Listing(tok, t) == [k \in {<<"blacklist", tok.jti>>} |-> [val |-> 1, exp |-> t + 1]]

C18_DoneHasCompletedAt ==
    \A i \in DOMAIN tasks :
        tasks[i].status = TaskStatusDone => tasks[i].completed_at # None

RateIdle == [pc |-> "idle", key |-> "", current |-> None, allowed |-> FALSE]

\* "current = await self.cache.get(redis_key)" and the branch on what was
\* read: a count at the limit answers False at once
RateLimitGet(p, ip) ==
    LET current == cache_get(redis, RlKey("login", ip), now, TRUE)
    IN  /\ reqs[p].pc \in {"idle", "done"}
        /\ reqs' = [reqs EXCEPT ![p] =
                       [pc |-> IF current # None /\ current >= LoginRateLimit
                               THEN "done" ELSE "write",
                        key |-> ip, current |-> current, allowed |-> FALSE]]
        /\ UNCHANGED <<now, users, nextUid, redis, issued, nextJti, resp, revoked, streak,
                       lockedAt, win, cap, board>>

\* "await self.cache.set(redis_key, "1", expire=window)" after a read of
\* None, "await self.cache.client.incr(redis_key)" after a read below the
\* limit; both answer True.  win counts the calls that answered True since
\* the first of them in the running window.
RateLimitWrite(p) ==
    LET k == RlKey("login", reqs[p].key)
    IN  /\ reqs[p].pc = "write"
        /\ redis' = IF reqs[p].current = None
                    THEN cache_set(redis, k, 1, WindowSec, now, TRUE)
                    ELSE client_incr(redis, k, now)
        /\ WinCall(reqs[p].key)
        /\ reqs' = [reqs EXCEPT ![p] = [@ EXCEPT !.pc = "done", !.allowed = TRUE]]
        /\ UNCHANGED <<now, users, nextUid, issued, nextJti, resp, revoked, streak,
                       lockedAt, cap, board>>

InitRateRace ==
    /\ InitState
    /\ reqs = [p \in 1..MaxConcurrent |-> RateIdle]
    /\ cap = [time |-> RateRaceMaxTime, jti |-> 0, fails |-> 0, env |-> DefaultEnvironment,
              users |-> 0, tasks |-> 0, pos |-> 0]

NextRateRace ==
    \/ Tick
    \/ \E p \in 1..MaxConcurrent, ip \in ClientIPs : RateLimitGet(p, ip)
    \/ \E p \in 1..MaxConcurrent : RateLimitWrite(p)

SpecRateRace == InitRateRace /\ [][NextRateRace]_vars

\* C21: of the concurrent is_allowed calls of one client within one window,
\* at most LoginRateLimit return true
C21_AtMostLimitAllowed ==
    \A ip \in ClientIPs : win[ip].calls <= LoginRateLimit

\* C22: every rate-limit counter in the store carries an expiry that lies at
\* most one window ahead, however the calls interleave with the expiry of
\* the key, so that no counter lives forever
C22_CounterExpires ==
    \A k \in DOMAIN redis :
        k[1] = "rate_limit" => redis[k].exp <= now + Ticks(WindowSec)

\* C23: the entry blacklist:<jti> that a revocation writes expires exactly
\* when the token does, so every revoked token that has not yet expired has
\* its entry in the store, and no entry is there for a token whose
\* expires_at has passed
C23_EntryLastsRemainingLifetime ==
    /\ \A tok \in issued :
          tok.jti \in revoked /\ now < Ticks(tok.exp) =>
              /\ BlKey(tok.jti) \in DOMAIN redis
              /\ redis[BlKey(tok.jti)].exp = Ticks(tok.exp)
    /\ \A tok \in issued :
          BlKey(tok.jti) \in DOMAIN redis => now < Ticks(tok.exp)

\* C24: every token the system has issued, access, refresh or
\* password-reset, carries a jti, and no two issued tokens carry the same
C24_EveryTokenHasFreshJti ==
    /\ \A tok \in issued : tok.jti # NoJti
    /\ \A t1, t2 \in issued : t1 # t2 => t1.jti # t2.jti

\* C25: every login that is turned down for an existing credential,
\* because the account cannot log in or because the password is wrong, adds
\* one to failed_login_attempts of that credential; a login for an unknown
\* e-mail address changes no credential
C25_EveryFailureRecorded ==
    [][resp'.op = "login" /\ resp'.status = 401 =>
          /\ resp'.cause \in {"cannot_login", "wrong_password"} =>
                \A uid \in DOMAIN users :
                    users[uid].email = lower_strip(resp'.email) =>
                        users'[uid].failed_login_attempts
                            = users[uid].failed_login_attempts + 1
          /\ resp'.cause = "unknown_email" => users' = users]_vars

\* C26: failed_login_attempts of every credential is at least 0 in every
\* state, and whenever a step writes a locked_until the value written is
\* strictly later than the time of the write
C26_CounterAndLockSane ==
    /\ [](\A uid \in DOMAIN users : users[uid].failed_login_attempts >= 0)
    /\ [][\A uid \in DOMAIN users :
              /\ users'[uid].locked_until # users[uid].locked_until
              /\ users'[uid].locked_until # None
              => users'[uid].locked_until > now]_vars

\* the wrong password that took the counter to MaxAttempts and locked the
\* account
C26_Witness ==
    /\ resp.op = "login" /\ resp.status = 401 /\ resp.cause = "wrong_password"
    /\ \E uid \in DOMAIN users :
          /\ users[uid].failed_login_attempts >= MaxAttempts
          /\ users[uid].locked_until = now + Ticks(LockoutSec)

\* ------------------ a failed login, await by await, one session per request
FailIdle == [pc |-> "idle", uid |-> 0, seen |-> [failed_login_attempts |-> 0,
                                                  locked_until |-> None]]

\* "user = await user_crud.get_by_email(db, email=email)", the can_login
\* test and the password check, all on the row as this session loaded it
LoginFailRead(p, email, password) ==
    LET uid == get_by_email(users, email)
    IN  /\ reqs[p].pc = "idle"
        /\ uid # 0
        /\ ~verify_password(password, users[uid].password_hash)
        /\ reqs' = [reqs EXCEPT ![p] =
                       IF can_login(users[uid], now)
                       THEN [pc |-> "write", uid |-> uid,
                             seen |-> [failed_login_attempts |->
                                           users[uid].failed_login_attempts,
                                       locked_until |-> users[uid].locked_until]]
                       ELSE [FailIdle EXCEPT !.pc = "done", !.uid = uid]]
        /\ UNCHANGED <<now, users, nextUid, redis, issued, nextJti, resp, revoked, streak,
                       lockedAt, win, cap, board>>

\* "await user_crud.update_login_failure(db, user=user)": record_login_failure
\* on the loaded row, then the commit, which writes the columns that were
\* assigned; streak counts the failures that were recorded this way
LoginFailWrite(p) ==
    LET uid == reqs[p].uid
        loaded == [users[uid] EXCEPT
                      !.failed_login_attempts = reqs[p].seen.failed_login_attempts,
                      !.locked_until = reqs[p].seen.locked_until]
        u == record_login_failure(loaded, now)
    IN  /\ reqs[p].pc = "write"
        /\ users' = [users EXCEPT ![uid] =
                        [@ EXCEPT !.failed_login_attempts = u.failed_login_attempts,
                                  !.locked_until = IF u.locked_until # loaded.locked_until
                                                   THEN u.locked_until ELSE @]]
        /\ streak' = [streak EXCEPT ![uid] = @ + 1]
        /\ reqs' = [reqs EXCEPT ![p].pc = "done"]
        /\ UNCHANGED <<now, nextUid, redis, issued, nextJti, resp, revoked, lockedAt, win,
                       cap, board>>

\* one registered account with some failures already recorded, and
\* FailMaxConcurrent requests about to arrive
InitFailRace ==
    \E previous \in 0..(MaxAttempts - 1) :
        /\ now = 0
        /\ users = <<[email |-> CHOOSE e \in Emails : TRUE,
                      password_hash |-> get_password_hash("Passw0rd!"),
                      is_active |-> TRUE, failed_login_attempts |-> previous,
                      locked_until |-> None]>>
        /\ nextUid = 1
        /\ redis = <<>>
        /\ issued = {}
        /\ nextJti = 0
        /\ resp = NoResp
        /\ revoked = {}
        /\ streak = [i \in 1..MaxUsers |-> previous]
        /\ lockedAt = [i \in 1..MaxUsers |-> None]
        /\ win = [ip \in ClientIPs |-> NoWin]
        /\ tasks = <<>>
        /\ nextTask = 0
        /\ tags = <<>>
        /\ task_tags = {}
        /\ reqs = [p \in 1..FailMaxConcurrent |-> FailIdle]
        /\ cap = [time |-> 0, jti |-> 0, fails |-> 0, env |-> DefaultEnvironment,
                  users |-> 1, tasks |-> 0, pos |-> 0]

NextFailRace ==
    \/ \E p \in 1..FailMaxConcurrent, email \in Emails, password \in Passwords :
          LoginFailRead(p, email, password)
    \/ \E p \in 1..FailMaxConcurrent : LoginFailWrite(p)

SpecFailRace == InitFailRace /\ [][NextFailRace]_vars

\* C27: whatever the interleaving of the concurrent failed logins on one
\* account, failed_login_attempts is at most one away from the count before
\* them plus the number of failures recorded
C27_MiscountAtMostOne ==
    \A uid \in DOMAIN users :
        /\ users[uid].failed_login_attempts - streak[uid] <= 1
        /\ streak[uid] - users[uid].failed_login_attempts <= 1

\* C28: an active account that is not locked, its locked_until being None
\* or in the past, has fewer than MaxAttempts failures on record, so that
\* after a lockout has run out it takes MaxAttempts further failures to lock
\* the account again
C28_UnlockedBelowThreshold ==
    \A uid \in DOMAIN users :
        /\ users[uid].is_active
        /\ users[uid].locked_until = None \/ users[uid].locked_until < now
        => users[uid].failed_login_attempts < MaxAttempts

\* C29: a logout leaves the credential records and the issued tokens as
\* they are and changes at most one key of the store, the blacklist key of
\* the access token that was presented; rate-limit counters and the
\* blacklist keys of all other tokens, the refresh token issued with the
\* access token among them, stay as they are
C29_LogoutFrame ==
    [][resp'.op = "logout" =>
          LET changed == {k \in DOMAIN redis' :
                             k \notin DOMAIN redis \/ redis'[k] # redis[k]}
          IN  /\ users' = users
              /\ issued' = issued
              /\ DOMAIN redis \subseteq DOMAIN redis'
              /\ Cardinality(changed) <= 1
              /\ \A k \in changed :
                    /\ k[1] = "blacklist"
                    /\ k[2] \in revoked'
                    /\ \E tok \in issued :
                          tok.jti = k[2] /\ tok.type = TOKEN_TYPE_ACCESS]_vars

\* a refresh token that had not been exchanged before is exchanged after the
\* access token of its user has been logged out
C29_Witness ==
    /\ resp.op = "refresh" /\ resp.status = 200 /\ ~resp.facts.replay
    /\ \E tok \in issued :
          /\ tok.type = TOKEN_TYPE_ACCESS /\ tok.sub = resp.uid
          /\ tok.jti \in revoked

\* C30: when the lookup of blacklist:<jti> raises a store error,
\* verify_token accepts every issued token that carries a jti and has not
\* expired, whether or not its jti is in the revocation store
C30_LookupFailsOpen ==
    \A tok \in issued :
        tok.sig /\ tok.jti # NoJti /\ now < Ticks(tok.exp) =>
            verify_token(tok, redis, now, FALSE) = "ok"

\* an authenticated request served for a token that was logged out and whose
\* blacklist entry is in the store, the lookup having raised
C30_Witness ==
    /\ resp.op \in AuthOps /\ resp.uid # 0
    /\ resp.facts.replay /\ resp.facts.listed
    /\ ~resp.facts.lookup_ok

====
